---------------------------- MODULE Spec2Model ----------------------------
(***************************************************************************)
(* A model of the TreeSearch core: the ordered-merge pair iterator         *)
(* (HitPairIter), the hit-set similarity test (HitSet::IsSimilarTo) and    *)
(* the pattern generator (PatternGenerator), translated from Hit.cxx and   *)
(* PatternGenerator.cxx.                                                   *)
(*                                                                         *)
(* Hits of a collection are identified by their 1-based index in the       *)
(* collection; 0 is the null pointer.  A TIterator is modelled by the      *)
(* number of objects it has already returned.                              *)
(***************************************************************************)
EXTENDS Integers, Sequences, FiniteSets, TLC

VARIABLES
  \* ---- HitPairIter ----
  collA,      \* positions of the hits of collection A, in collection order
  collB,      \* positions of the hits of collection B, in collection order
  iter,       \* the HitPairIter object
  emitted,    \* history: fCurrent after each Next(), up to the terminal pair
  copy,       \* a second HitPairIter made by the copy constructor, or NoIter
  \* ---- HitSet::IsSimilarTo ----
  sim,        \* the state of one IsSimilarTo call
  \* ---- PatternGenerator ----
  gen         \* the PatternGenerator object and the call stack of Generate

vars == <<collA, collB, iter, emitted, copy, sim, gen>>

(***************************************************************************)
(* Bounds of the model                                                     *)
(***************************************************************************)
MaxLen == 3       \* hits per collection
MaxPos == 3       \* hit positions are 0..MaxPos
MaxDist == 1      \* maxdist is 0..MaxDist

\* Idle values of the parts a specification does not exercise
NoIter == [none |-> TRUE]
NoSim == [pc |-> "off"]
NoGen == [pc |-> "off"]

(***************************************************************************)
(* Hit::Compare(rhs, maxdist): -1 if this lies more than maxdist to the    *)
(* left of rhs, +1 if more than maxdist to the right, 0 if within maxdist. *)
(***************************************************************************)
Compare(posThis, posRhs, maxdist) ==
  IF posThis + maxdist < posRhs THEN -1
  ELSE IF posRhs + maxdist < posThis THEN 1
  ELSE 0

\* Position of hit h (a non-null index) of collection A / B
PosA(h) == collA[h]
PosB(h) == collB[h]

(***************************************************************************)
(* TIterator::Next() on a sequence collection: returns the next object and *)
(* advances, or returns 0 (and stays) when the collection is exhausted.    *)
(***************************************************************************)
IterNext(coll, cursor) ==
  IF cursor < Len(coll)
  THEN [obj |-> cursor + 1, cursor |-> cursor + 1]
  ELSE [obj |-> 0, cursor |-> cursor]

(***************************************************************************)
(* HitPairIter::Next(), Hit.cxx:187-274, one operator per branch.          *)
(***************************************************************************)

\* Hit.cxx:194-198: the first call fetches the first hit of each collection
StartIter(it) ==
  IF it.fStarted THEN it
  ELSE LET a == IterNext(collA, it.fIterA)
           b == IterNext(collB, it.fIterB)
       IN [it EXCEPT !.fNext = <<a.obj, b.obj>>,
                     !.fIterA = a.cursor, !.fIterB = b.cursor,
                     !.fStarted = TRUE]

\* Mutant of CaseALess: fCurrent.second is not cleared
CaseALess_KeepB(it) ==
  LET a == IterNext(collA, it.fIterA)
  IN [it EXCEPT !.fNext = <<a.obj, it.fNext[2]>>, !.fIterA = a.cursor]

\* Hit.cxx:206-209: A<B, hitA is unpaired
CaseALess(it) ==
  LET a == IterNext(collA, it.fIterA)
  IN [it EXCEPT !.fNext = <<a.obj, it.fNext[2]>>, !.fIterA = a.cursor,
                !.fCurrent = <<it.fCurrent[1], 0>>]

\* Hit.cxx:210-213: A>B, hitB is unpaired
CaseAGreater(it) ==
  LET b == IterNext(collB, it.fIterB)
  IN [it EXCEPT !.fNext = <<it.fNext[1], b.obj>>, !.fIterB = b.cursor,
                !.fCurrent = <<0, it.fCurrent[2]>>]

(***************************************************************************)
(* Hit.cxx:233-234: advance B from the saved hit until B >= A or B is the  *)
(* hit that ended the scan.  hitB->Compare on a null hitB is a null        *)
(* pointer read: the call faults.                                          *)
(***************************************************************************)
RECURSIVE ReplayLoop(_, _, _, _, _)
ReplayLoop(hitB, cursorB, nextB, hitA, maxdist) ==
  IF hitB = nextB THEN [hit |-> hitB, cursor |-> cursorB, fault |-> FALSE]
  ELSE IF hitB = 0 THEN [hit |-> hitB, cursor |-> cursorB, fault |-> TRUE]
  ELSE IF Compare(PosB(hitB), PosA(hitA), maxdist) < 0
       THEN LET b == IterNext(collB, cursorB)
            IN ReplayLoop(b.obj, b.cursor, nextB, hitA, maxdist)
       ELSE [hit |-> hitB, cursor |-> cursorB, fault |-> FALSE]

\* Hit.cxx:219-240: end of a scan of B with fixed hitA
ScanEnd(it, nextB) ==
  LET a == IterNext(collA, it.fIterA)
      r == IF a.obj # 0
           THEN ReplayLoop(it.fSaveHit, it.fSaveIter, nextB, a.obj, it.fMaxDist)
           ELSE [hit |-> nextB, cursor |-> it.fSaveIter, fault |-> FALSE]
  IN [it EXCEPT !.fScanning = FALSE, !.fIterB = r.cursor,
                !.fIterA = a.cursor, !.fNext = <<a.obj, r.hit>>,
                !.fault = r.fault]

\* Mutant of NormalPair: B is advanced once more instead of using nextB
NormalPair_SkipB(it, nextB) ==
  LET a == IterNext(collA, it.fIterA)
      b == IterNext(collB, it.fIterB)
  IN [it EXCEPT !.fIterA = a.cursor, !.fIterB = b.cursor,
                !.fNext = <<a.obj, b.obj>>]

\* Hit.cxx:242-247: the normal case, one B matches hitA
NormalPair(it, nextB) ==
  LET a == IterNext(collA, it.fIterA)
  IN [it EXCEPT !.fIterA = a.cursor, !.fNext = <<a.obj, nextB>>]

\* Mutant of ScanStep: the hit that starts the scan is not saved
ScanStep_NoSaveHit(it, hitB, nextB) ==
  LET s == IF ~it.fScanning
           THEN [it EXCEPT !.fScanning = TRUE, !.fSaveIter = it.fIterB]
           ELSE it
  IN [s EXCEPT !.fNext = <<s.fNext[1], nextB>>]

\* Hit.cxx:248-263: more than one B matches hitA: start or continue a scan
ScanStep(it, hitB, nextB) ==
  LET s == IF ~it.fScanning
           THEN [it EXCEPT !.fScanning = TRUE, !.fSaveIter = it.fIterB,
                           !.fSaveHit = hitB]
           ELSE it
  IN [s EXCEPT !.fNext = <<s.fNext[1], nextB>>]

\* Hit.cxx:214-265: A==B, found a pair
CasePair(it) ==
  LET hitA == it.fCurrent[1]
      hitB == it.fCurrent[2]
      b == IterNext(collB, it.fIterB)
      nextB == b.obj
      it1 == [it EXCEPT !.fIterB = b.cursor]
  IN IF nextB = 0 \/ Compare(PosA(hitA), PosB(nextB), it.fMaxDist) < 0
     THEN IF it.fScanning THEN ScanEnd(it1, nextB) ELSE NormalPair(it1, nextB)
     ELSE ScanStep(it1, hitB, nextB)

\* Hit.cxx:267-268: only A left
OnlyA(it) ==
  LET a == IterNext(collA, it.fIterA)
  IN [it EXCEPT !.fNext = <<a.obj, it.fNext[2]>>, !.fIterA = a.cursor]

\* Mutant of OnlyB: B is not advanced
OnlyB_NoAdvance(it) == it

\* Hit.cxx:269-270: only B left
OnlyB(it) ==
  LET b == IterNext(collB, it.fIterB)
  IN [it EXCEPT !.fNext = <<it.fNext[1], b.obj>>, !.fIterB = b.cursor]

HitPairIter_Next(it) ==
  LET s == StartIter(it)
      c == [s EXCEPT !.fCurrent = s.fNext]
      hitA == c.fCurrent[1]
      hitB == c.fCurrent[2]
  IN IF hitA # 0 /\ hitB # 0
     THEN LET cmp == Compare(PosA(hitA), PosB(hitB), c.fMaxDist)
          IN IF cmp = -1 THEN CaseALess(c)
             ELSE IF cmp = 1 THEN CaseAGreater(c)
             ELSE CasePair(c)
     ELSE IF hitA # 0 THEN OnlyA(c)
     ELSE IF hitB # 0 THEN OnlyB(c)
     ELSE c

\* Hit.cxx:89-107: the constructor makes the iterators and calls Next()
HitPairIter_Ctor(maxdist) ==
  HitPairIter_Next(
    [fIterA |-> 0, fIterB |-> 0, fSaveIter |-> 0, fSaveHit |-> 0,
     fMaxDist |-> maxdist, fStarted |-> FALSE, fScanning |-> FALSE,
     fCurrent |-> <<0, 0>>, fNext |-> <<0, 0>>, fault |-> FALSE])

(***************************************************************************)
(* Hit.cxx:110-128: the copy constructor.  fMaxDist is initialised from    *)
(* itself (line 113), i.e. from the new object's uninitialised member: its *)
(* value is indeterminate (md is any value).  The cursors are copied.      *)
(***************************************************************************)
HitPairIter_CopyCtor(rhs, md) ==
  [fIterA |-> rhs.fIterA, fIterB |-> rhs.fIterB, fSaveIter |-> rhs.fSaveIter,
   fSaveHit |-> rhs.fSaveHit, fMaxDist |-> md, fStarted |-> rhs.fStarted,
   fScanning |-> rhs.fScanning, fCurrent |-> rhs.fCurrent,
   fNext |-> rhs.fNext, fault |-> rhs.fault]

\* The values an indeterminate fMaxDist is drawn from
IndeterminateDist == 0..(MaxDist + 1)

\* The terminal pair: no more hits in either plane (Hit.cxx:191-192)
Terminal(it) == it.fCurrent = <<0, 0>>

\* History of the emissions of one run.  A run over collections of at most
\* MaxLen hits never emits HistCap pairs (HistNeverFull), so the cap only
\* keeps the history finite should a run not end.
HistCap == 2 * (MaxLen + 1) * (MaxLen + 1)
Record(hist, it) ==
  IF Terminal(it) \/ Len(hist) >= HistCap THEN hist ELSE Append(hist, it.fCurrent)

(***************************************************************************)
(* Inputs: collections sorted ascending by position                        *)
(***************************************************************************)
Positions == 0..MaxPos

SortedSeqs ==
  UNION {{s \in [1..n -> Positions] : \A i \in 1..n, j \in 1..n : i < j => s[i] <= s[j]}
          : n \in 0..MaxLen}

InitIter ==
  /\ collA \in SortedSeqs
  /\ collB \in SortedSeqs
  /\ \E md \in 0..MaxDist : iter = HitPairIter_Ctor(md)
  /\ emitted = Record(<<>>, iter)
  /\ copy = NoIter
  /\ sim = NoSim
  /\ gen = NoGen

\* A call of Next() on the iterator (no copy exists)
Next_Call ==
  /\ copy = NoIter
  /\ ~iter.fault
  /\ iter' = HitPairIter_Next(iter)
  /\ emitted' = Record(emitted, iter')
  /\ UNCHANGED <<collA, collB, copy, sim, gen>>

NextIter == Next_Call

SpecIter == InitIter /\ [][NextIter]_vars /\ WF_vars(Next_Call)

\* The history never reaches its cap
HistNeverFull == Len(emitted) < HistCap

(***************************************************************************)
(* Copying an iterator in the middle of a run, then running the original   *)
(* and the copy side by side.                                              *)
(***************************************************************************)
Copy_Ctor ==
  /\ copy = NoIter
  /\ ~iter.fault
  /\ \E md \in IndeterminateDist : copy' = HitPairIter_CopyCtor(iter, md)
  /\ UNCHANGED <<collA, collB, iter, emitted, sim, gen>>

\* One Next() on the original and one on the copy
Next_Both ==
  /\ copy # NoIter
  /\ ~iter.fault /\ ~copy.fault
  /\ iter' = HitPairIter_Next(iter)
  /\ copy' = HitPairIter_Next(copy)
  /\ emitted' = Record(emitted, iter')
  /\ UNCHANGED <<collA, collB, sim, gen>>

NextCopy == Next_Call \/ Copy_Ctor \/ Next_Both

SpecCopy == InitIter /\ [][NextCopy]_vars

(***************************************************************************)
(* Hit.cxx:131-158: the assignment operator, this # &rhs.  Every member is *)
(* assigned from rhs but fSaveHit, which keeps the value it had in lhs.    *)
(***************************************************************************)
HitPairIter_Assign(lhs, rhs) ==
  [fIterA |-> rhs.fIterA, fIterB |-> rhs.fIterB, fSaveIter |-> rhs.fSaveIter,
   fSaveHit |-> lhs.fSaveHit, fMaxDist |-> rhs.fMaxDist,
   fStarted |-> rhs.fStarted, fScanning |-> rhs.fScanning,
   fCurrent |-> rhs.fCurrent, fNext |-> rhs.fNext, fault |-> rhs.fault]

\* The iterator after k calls of Next()
RECURSIVE NextTimes(_, _)
NextTimes(it, k) ==
  IF k = 0 \/ it.fault THEN it ELSE NextTimes(HitPairIter_Next(it), k - 1)

\* The states of an iterator over the same collections that is assigned to:
\* constructed with some maxdist and advanced by some calls of Next()
AssignTargets ==
  {NextTimes(HitPairIter_Ctor(md), k) :
     md \in 0..MaxDist, k \in 0..(Len(collA) + Len(collB))}

\* it2 = it1 in the middle of the run of it1
Assign_Op ==
  /\ copy = NoIter
  /\ ~iter.fault
  /\ \E lhs \in AssignTargets : copy' = HitPairIter_Assign(lhs, iter)
  /\ UNCHANGED <<collA, collB, iter, emitted, sim, gen>>

NextAssign == Next_Call \/ Assign_Op \/ Next_Both

SpecAssign == InitIter /\ [][NextAssign]_vars

(***************************************************************************)
(* Hit.cxx:172-183: Reset().  The flags are cleared, the cursors of A and  *)
(* B are reset and Next() is called; fSaveIter and fSaveHit are left.      *)
(***************************************************************************)
\* Mutant of HitPairIter_Reset: fScanning is not cleared
HitPairIter_Reset_KeepScanning(it) ==
  HitPairIter_Next([it EXCEPT !.fStarted = FALSE,
                              !.fIterA = 0, !.fIterB = 0])

HitPairIter_Reset(it) ==
  HitPairIter_Next([it EXCEPT !.fStarted = FALSE, !.fScanning = FALSE,
                              !.fIterA = 0, !.fIterB = 0])

\* Reset() at any point of a run; copy becomes a freshly constructed
\* iterator over the same A, B and maxdist, and the history starts again
Reset_Call ==
  /\ ~iter.fault
  /\ iter' = HitPairIter_Reset(iter)
  /\ copy' = HitPairIter_Ctor(iter.fMaxDist)
  /\ emitted' = Record(<<>>, iter')
  /\ UNCHANGED <<collA, collB, sim, gen>>

NextReset == Next_Call \/ Reset_Call \/ Next_Both

SpecReset == InitIter /\ [][NextReset]_vars


(***************************************************************************)
(* HitSet::IsSimilarTo, Hit.cxx:277-324.  A hit of a HitSet is a record    *)
(* [plane, pos]; a HitSet is its hits in the order of the set's key        *)
(* comparison, with the cached plane_pattern.                              *)
(***************************************************************************)
MaxPlane == 1     \* plane numbers are 0..MaxPlane
MaxSetPos == 1    \* positions of the hits of a HitSet are 0..MaxSetPos

\* Hset_t::key_compare: by plane, then by position within the plane
KeyLess(a, b) ==
  \/ a.plane < b.plane
  \/ (a.plane = b.plane /\ a.pos < b.pos)

\* The iteration order of a std::set with that comparison
RECURSIVE SortHits(_)
SortHits(S) ==
  IF S = {} THEN <<>>
  ELSE LET m == CHOOSE x \in S : \A y \in S \ {x} : KeyLess(x, y)
       IN <<m>> \o SortHits(S \ {m})

\* Bitwise or of two UInt_t
RECURSIVE BitOr(_, _)
BitOr(x, y) ==
  IF x = 0 THEN y
  ELSE IF y = 0 THEN x
  ELSE (IF x % 2 = 1 \/ y % 2 = 1 THEN 1 ELSE 0) + 2 * BitOr(x \div 2, y \div 2)

\* 1U << n; the plane numbers of the model are below 31, so no bit is lost
PlaneBit(n) == 2 ^ n

\* Hit.cxx:277-286: plane occupancy pattern of a hit set
RECURSIVE GetMatchValue(_)
GetMatchValue(hits) ==
  IF hits = <<>> THEN 0
  ELSE BitOr(PlaneBit(Head(hits).plane), GetMatchValue(Tail(hits)))

\* Mutant of SimilarWalk: the two advancing branches are swapped
RECURSIVE SimilarWalk_Swapped(_, _, _, _, _)
SimilarWalk_Swapped(hits, try, ihits, itry, pattern) ==
  IF ihits > Len(hits) \/ itry > Len(try) THEN pattern
  ELSE IF KeyLess(try[itry], hits[ihits])
       THEN SimilarWalk_Swapped(hits, try, ihits + 1, itry, pattern)
  ELSE IF KeyLess(hits[ihits], try[itry])
       THEN SimilarWalk_Swapped(hits, try, ihits, itry + 1, pattern)
  ELSE SimilarWalk_Swapped(hits, try, ihits + 1, itry + 1,
                           BitOr(pattern, PlaneBit(try[itry].plane)))

\* Hit.cxx:312-322: the merge walk; the result is intersection_pattern
RECURSIVE SimilarWalk(_, _, _, _, _)
SimilarWalk(hits, try, ihits, itry, pattern) ==
  IF ihits > Len(hits) \/ itry > Len(try) THEN pattern
  ELSE IF KeyLess(try[itry], hits[ihits])
       THEN SimilarWalk(hits, try, ihits, itry + 1, pattern)
  ELSE IF KeyLess(hits[ihits], try[itry])
       THEN SimilarWalk(hits, try, ihits + 1, itry, pattern)
  ELSE SimilarWalk(hits, try, ihits + 1, itry + 1,
                   BitOr(pattern, PlaneBit(try[itry].plane)))

\* Hit.cxx:289-324
IsSimilarTo(hits, tryset) ==
  tryset.plane_pattern = SimilarWalk(hits, tryset.hits, 1, 1, 0)

SetHits == [plane : 0..MaxPlane, pos : 0..MaxSetPos]
HitSets == {S \in SUBSET SetHits : Cardinality(S) <= MaxLen}

\* Inputs: two hit sets, tryset non-empty with its plane_pattern cached
InitSim ==
  /\ \E S \in HitSets, T \in HitSets \ {{}} :
       sim = [pc |-> "call", hits |-> SortHits(S),
              tryset |-> [hits |-> SortHits(T),
                          plane_pattern |-> GetMatchValue(SortHits(T))],
              result |-> FALSE]
  /\ collA = <<>> /\ collB = <<>> /\ iter = NoIter /\ emitted = <<>>
  /\ copy = NoIter /\ gen = NoGen

Sim_Call ==
  /\ sim.pc = "call"
  /\ sim' = [sim EXCEPT !.pc = "done",
                        !.result = IsSimilarTo(sim.hits, sim.tryset)]
  /\ UNCHANGED <<collA, collB, iter, emitted, copy, gen>>

NextSim == Sim_Call

SpecSim == InitSim /\ [][NextSim]_vars

(***************************************************************************)
(* PatternGenerator, PatternGenerator.cxx.  A Pattern is a record          *)
(* [fBits, fChild, fMinDepth] held in gen.pats and named by its index      *)
(* there (0 is the null pointer); a child Link is [pat, type] and a list   *)
(* of Links is a sequence, head first.  Plane positions and slopes are     *)
(* multiples of 1/ZUnits and 1/SlopeUnits, which binary floating point     *)
(* represents exactly, so the comparisons of TestSlope and LineCheck are   *)
(* those of the doubles.                                                   *)
(***************************************************************************)
MaxPlanes == 4    \* number of planes of an input is 1..MaxPlanes
MaxDepth == 4     \* maxdepth of an input is 0..MaxDepth
MaxSlopeQ == 2    \* maxslope of an input is -1/2, 0, 1/2, ..., MaxSlopeQ/2

ZUnits == 2 ^ 2
SlopeUnits == 2 ^ 1

Abs(x) == IF x < 0 THEN -x ELSE x
SetMin(S) == CHOOSE x \in S : \A y \in S : x <= y
SetMax(S) == CHOOSE x \in S : \A y \in S : x >= y
BitsOf(b) == {b[i] : i \in 1..Len(b)}

\* Pattern::fMinDepth of a pattern no MakeChildNodes call has used yet
kNotUsed == 2147483647

\* Pattern::Pattern: the bits, no children, not used at any depth
NewPattern(bits) == [fBits |-> bits, fChild |-> <<>>, fMinDepth |-> kNotUsed]

\* Pattern::GetWidth: last bin minus first bin; negative for a pattern that
\* has to be mirrored
GetWidth(bits) == bits[Len(bits)] - bits[1]

\* Pattern::Hash: a function of the bins
Hash(bits) == bits[Len(bits)]

\* Pattern::UsedAtDepth
UsedAtDepth(pat, depth) ==
  IF depth < pat.fMinDepth THEN [pat EXCEPT !.fMinDepth = depth] ELSE pat

\* Pattern::AddChild: a new Link at the head of the child list
AddChild(pat, node, type) ==
  [pat EXCEPT !.fChild = <<[pat |-> node, type |-> type]>> \o @]

\* PatternTree::Normalize: 0 if the parameters are valid.  The valid inputs
\* of the model are normalised already (z from 0 to 1), so Normalize leaves
\* them as they are.
Normalize(par) ==
  IF /\ Len(par.zpos) >= 2
     /\ \A i \in 1..(Len(par.zpos) - 1) : par.zpos[i] < par.zpos[i + 1]
     /\ par.maxslope >= 0
     /\ par.maxdepth >= 1
  THEN 0 ELSE 1

(***************************************************************************)
(* ChildIter, PatternGenerator.cxx:32-84 and PatternGenerator.h:55-78      *)
(***************************************************************************)
\* Mutant of ChildBit: the parent's bit is dropped
ChildBit_SelectorOnly(parent, n, ibit) == (n \div (2 ^ ibit)) % 2

\* Mutant of ChildBit: the parent's bit is not doubled
ChildBit_NoDouble(parent, n, ibit) ==
  parent[ibit + 1] + ((n \div (2 ^ ibit)) % 2)

\* PatternGenerator.cxx:56-59: bit ibit (0-based) of the child for selector n
ChildBit(parent, n, ibit) ==
  2 * parent[ibit + 1] + ((n \div (2 ^ ibit)) % 2)

\* Mutant of ShiftChild: the type is set but the bits are not lowered
ShiftChild_NoShift(c, minbit) ==
  [bits |-> c, type |-> IF minbit = 0 THEN 0 ELSE 1]

\* PatternGenerator.cxx:66-72: type 1 and all bits lowered if no bit is zero
ShiftChild(c, minbit) ==
  IF minbit = 0 THEN [bits |-> c, type |-> 0]
  ELSE [bits |-> [i \in 1..Len(c) |-> c[i] - 1], type |-> 1]

\* Mutant of MirrorChild: the mirror tag is added outside the width test
MirrorChild_TagAlways(sh, width) ==
  [bits |-> IF width < 0
            THEN [i \in 1..Len(sh.bits) |-> (-width) - sh.bits[i]]
            ELSE sh.bits,
   type |-> sh.type + 2]

\* Mutant of MirrorChild: a pattern of width zero is mirrored as well
MirrorChild_ZeroWidth(sh, width) ==
  IF width <= 0
  THEN [bits |-> [i \in 1..Len(sh.bits) |-> (-width) - sh.bits[i]],
        type |-> sh.type + 2]
  ELSE sh

\* PatternGenerator.cxx:73-78: a pattern of negative width is mirrored
MirrorChild(sh, width) ==
  IF width < 0
  THEN [bits |-> [i \in 1..Len(sh.bits) |-> (-width) - sh.bits[i]],
        type |-> sh.type + 2]
  ELSE sh

\* PatternGenerator.cxx:51-80: while( fCount-- ), count is fCount at the test
RECURSIVE ChildIter_Loop(_, _)
ChildIter_Loop(it, count) ==
  IF count = 0 THEN [it EXCEPT !.fCount = -1]
  ELSE LET n == count - 1
           c == [i \in 1..Len(it.fParent) |-> ChildBit(it.fParent, n, i - 1)]
           minbit == SetMin(BitsOf(c) \cup {1})
           maxbit == SetMax(BitsOf(c) \cup {0})
           width == GetWidth(c)
       IN IF maxbit - minbit > Abs(width)
          THEN ChildIter_Loop([it EXCEPT !.fChild = c], n)
          ELSE LET r == MirrorChild(ShiftChild(c, minbit), width)
               IN [it EXCEPT !.fChild = r.bits, !.fType = r.type, !.fCount = n]

\* PatternGenerator.cxx:32-84: operator++
ChildIter_Incr(it) ==
  IF it.fCount > 0 THEN ChildIter_Loop(it, it.fCount)
  ELSE [it EXCEPT !.fCount = -1]

\* PatternGenerator.h:62-63, 74-77: the constructor and reset()
ChildIter_New(parent) ==
  ChildIter_Incr([fParent |-> parent, fChild |-> parent,
                  fCount |-> 2 ^ Len(parent), fType |-> 0])

\* PatternGenerator.h:71: operator bool
ChildIter_Valid(it) == it.fCount >= 0

(***************************************************************************)
(* Geometry predicates                                                     *)
(***************************************************************************)
\* PatternGenerator.cxx:339-344.  The width is read as a UInt_t: a negative
\* width is a number above every slope limit of the model.
TestSlope(bits, depth, maxslope) ==
  LET width == GetWidth(bits)
  IN IF width < 0 THEN FALSE
     ELSE width < 2 \/ (width - 1) * SlopeUnits <= maxslope * (2 ^ depth)

\* Mutant of LineCheck_Loop: a bin one full bin width off the band passes
RECURSIVE LineCheck_Loop_Lenient(_, _, _, _, _, _, _)
LineCheck_Loop_Lenient(bits, z, i, xL, xRm1, zL, zR) ==
  IF i <= 0 THEN TRUE
  ELSE LET dL == xL * z[i + 1] - bits[i + 1] * zL
           dR == xRm1 * z[i + 1] - bits[i + 1] * zR
       IN IF Abs(dL) > zL THEN FALSE
          ELSE IF Abs(dR) > zR THEN FALSE
          ELSE IF i > 1
               THEN LineCheck_Loop_Lenient(bits, z, i - 1,
                                   IF dR < 0 THEN bits[i + 1] ELSE xL,
                                   IF dL > 0 THEN bits[i + 1] ELSE xRm1,
                                   IF dR < 0 THEN z[i + 1] ELSE zL,
                                   IF dL > 0 THEN z[i + 1] ELSE zR)
               ELSE LineCheck_Loop_Lenient(bits, z, i - 1, xL, xRm1, zL, zR)

\* PatternGenerator.cxx:363-390: the loop over the planes fNplanes-2 .. 1;
\* i is the 0-based plane, z the plane positions
RECURSIVE LineCheck_Loop(_, _, _, _, _, _, _)
LineCheck_Loop(bits, z, i, xL, xRm1, zL, zR) ==
  IF i <= 0 THEN TRUE
  ELSE LET dL == xL * z[i + 1] - bits[i + 1] * zL
           dR == xRm1 * z[i + 1] - bits[i + 1] * zR
       IN IF Abs(dL) >= zL THEN FALSE
          ELSE IF Abs(dR) >= zR THEN FALSE
          ELSE IF i > 1
               THEN LineCheck_Loop(bits, z, i - 1,
                                   IF dR < 0 THEN bits[i + 1] ELSE xL,
                                   IF dL > 0 THEN bits[i + 1] ELSE xRm1,
                                   IF dR < 0 THEN z[i + 1] ELSE zL,
                                   IF dL > 0 THEN z[i + 1] ELSE zR)
               ELSE LineCheck_Loop(bits, z, i - 1, xL, xRm1, zL, zR)

\* PatternGenerator.cxx:347-392
LineCheck(bits, z) ==
  LET n == Len(z)
  IN LineCheck_Loop(bits, z, n - 2, bits[n], bits[n], z[n], z[n])

(***************************************************************************)
(* The hash table                                                          *)
(***************************************************************************)
\* Mutant of FindInChain: only the head of the chain is compared
FindInChain_HeadOnly(pats, chain, bits) ==
  IF chain = <<>> THEN 0
  ELSE IF pats[Head(chain)].fBits = bits THEN Head(chain)
  ELSE 0

\* PatternGenerator.cxx:403-408: the first pattern of a chain that equals bits
RECURSIVE FindInChain(_, _, _)
FindInChain(pats, chain, bits) ==
  IF chain = <<>> THEN 0
  ELSE IF pats[Head(chain)].fBits = bits THEN Head(chain)
  ELSE FindInChain(pats, Tail(chain), bits)

\* PatternGenerator.cxx:395-410
Find(g, bits) ==
  LET hashsize == Len(g.fHashTable)
      hash == Hash(bits) % hashsize
  IN FindInChain(g.pats, g.fHashTable[hash + 1], bits)

\* PatternGenerator.cxx:233-250: pat is the index of the pattern
AddHash(g, pat) ==
  LET table == IF Len(g.fHashTable) = 0
               THEN [k \in 1..(2 ^ (g.fNlevels - 1)) |-> <<>>]
               ELSE g.fHashTable
      hash == Hash(g.pats[pat].fBits) % Len(table)
  IN [g EXCEPT !.fHashTable = [table EXCEPT ![hash + 1] = <<pat>> \o @]]

\* new Pattern( ... ): the pattern gets the next free index
Allocate(g, bits) == [g EXCEPT !.pats = Append(@, NewPattern(bits))]

(***************************************************************************)
(* The generator driver                                                    *)
(***************************************************************************)
\* Mutant of ProcessChild: a pattern that exists already is not linked again
ProcessChild_NoRelink(g, parent, depth, child, type) ==
  LET node == Find(g, child)
  IN IF node # 0
     THEN g
     ELSE IF TestSlope(child, depth, g.fMaxSlope) /\ LineCheck(child, g.fZ)
          THEN LET g1 == Allocate(g, child)
                   new == Len(g1.pats)
                   g2 == AddHash(g1, new)
               IN [g2 EXCEPT !.pats[parent] = AddChild(@, new, type)]
          ELSE g

\* Mutant of ProcessChild: a new pattern is stored without the line check
ProcessChild_NoLineCheck(g, parent, depth, child, type) ==
  LET node == Find(g, child)
  IN IF node # 0
     THEN IF depth >= g.pats[node].fMinDepth
             \/ TestSlope(g.pats[node].fBits, depth, g.fMaxSlope)
          THEN [g EXCEPT !.pats[parent] = AddChild(@, node, type)]
          ELSE g
     ELSE IF TestSlope(child, depth, g.fMaxSlope)
          THEN LET g1 == Allocate(g, child)
                   new == Len(g1.pats)
                   g2 == AddHash(g1, new)
               IN [g2 EXCEPT !.pats[parent] = AddChild(@, new, type)]
          ELSE g

\* PatternGenerator.cxx:432-447: one candidate of the ChildIter of parent
ProcessChild(g, parent, depth, child, type) ==
  LET node == Find(g, child)
  IN IF node # 0
     THEN IF depth >= g.pats[node].fMinDepth
             \/ TestSlope(g.pats[node].fBits, depth, g.fMaxSlope)
          THEN [g EXCEPT !.pats[parent] = AddChild(@, node, type)]
          ELSE g
     ELSE IF TestSlope(child, depth, g.fMaxSlope) /\ LineCheck(child, g.fZ)
          THEN LET g1 == Allocate(g, child)
                   new == Len(g1.pats)
                   g2 == AddHash(g1, new)
               IN [g2 EXCEPT !.pats[parent] = AddChild(@, new, type)]
          ELSE g

\* The patterns of the hash table, bucket after bucket
RECURSIVE TablePatterns(_)
TablePatterns(table) ==
  IF table = <<>> THEN <<>> ELSE Head(table) \o TablePatterns(Tail(table))

RECURSIVE SumLinks(_, _)
SumLinks(pats, ids) ==
  IF ids = <<>> THEN 0
  ELSE Len(pats[Head(ids)].fChild) + SumLinks(pats, Tail(ids))

\* PatternGenerator.cxx:131-176
CalcStatistics(g) ==
  LET ids == TablePatterns(g.fHashTable)
  IN [nPatterns |-> Len(ids),
      nLinks |-> SumLinks(g.pats, ids),
      MaxChildListLength |->
        SetMax({0} \cup {Len(g.pats[ids[k]].fChild) : k \in 1..Len(ids)}),
      MaxHashDepth |->
        SetMax({0} \cup {Len(g.fHashTable[k]) : k \in 1..Len(g.fHashTable)})]

\* A frame of the MakeChildNodes recursion
Frame(parent, depth) ==
  [parent |-> parent, depth |-> depth, pc |-> "enter",
   it |-> [fParent |-> <<>>, fChild |-> <<>>, fCount |-> -1, fType |-> 0],
   ln |-> 0]

\* PatternGenerator.cxx:87-91: the constructor.  params holds the argument
\* of the Generate call to come and calls counts the Generate calls.
NewGenerator(par) ==
  [pc |-> "idle", params |-> par, calls |-> 1, fNlevels |-> 0,
   fNplanes |-> 0, fMaxSlope |-> 0, fZ |-> <<>>, fHashTable |-> <<>>,
   pats |-> <<>>, stack |-> <<>>, tree |-> 0,
   fStats |-> [nPatterns |-> 0, nLinks |-> 0, MaxChildListLength |-> 0,
               MaxHashDepth |-> 0]]

\* Plane positions of an input: from 0 to 1, or a single plane at 0
ZposInputs ==
  {<<0>>} \cup
  UNION {{<<0>> \o m \o <<ZUnits>> : m \in [1..k -> 0..ZUnits]}
          : k \in 0..(MaxPlanes - 2)}

ParamInputs ==
  [maxdepth : 0..MaxDepth, zpos : ZposInputs, maxslope : (-1)..MaxSlopeQ]

InitGen ==
  /\ \E par \in ParamInputs : gen = NewGenerator(par)
  /\ collA = <<>> /\ collB = <<>> /\ iter = NoIter /\ emitted = <<>>
  /\ copy = NoIter /\ sim = NoSim

OtherVars == <<collA, collB, iter, emitted, copy, sim>>

\* Mutant of Generate_Reject: the parameters are stored before the test
Generate_Reject_StoresParams ==
  /\ gen.pc = "idle"
  /\ Normalize(gen.params) # 0
  /\ gen' = [gen EXCEPT !.pc = "rejected", !.tree = 0,
                        !.fNlevels = gen.params.maxdepth + 1,
                        !.fZ = gen.params.zpos,
                        !.fNplanes = Len(gen.params.zpos),
                        !.fMaxSlope = gen.params.maxslope]
  /\ UNCHANGED OtherVars

\* PatternGenerator.cxx:259-260: the parameters are rejected
Generate_Reject ==
  /\ gen.pc = "idle"
  /\ Normalize(gen.params) # 0
  /\ gen' = [gen EXCEPT !.pc = "rejected", !.tree = 0]
  /\ UNCHANGED OtherVars

\* PatternGenerator.cxx:262-276: the parameters are set, the root is made
\* and MakeChildNodes( root, 1 ) is called
Generate_Start ==
  /\ gen.pc = "idle"
  /\ Normalize(gen.params) = 0
  /\ LET g0 == [gen EXCEPT !.fNlevels = gen.params.maxdepth + 1,
                           !.fZ = gen.params.zpos,
                           !.fNplanes = Len(gen.params.zpos),
                           !.fMaxSlope = gen.params.maxslope]
         g1 == Allocate(g0, [i \in 1..g0.fNplanes |-> 0])
         root == Len(g1.pats)
         g2 == AddHash(g1, root)
     IN gen' = [g2 EXCEPT !.pc = "run", !.stack = <<Frame(root, 1)>>]
  /\ UNCHANGED OtherVars

\* PatternGenerator.cxx:417-428: entry of MakeChildNodes( parent, depth )
MakeChildNodes_Enter ==
  /\ gen.pc = "run" /\ gen.stack # <<>>
  /\ LET f == Head(gen.stack)
         g == IF f.depth > 0
              THEN [gen EXCEPT !.pats[f.parent] = UsedAtDepth(@, f.depth - 1)]
              ELSE gen
     IN /\ f.pc = "enter"
        /\ gen' =
             IF f.depth >= g.fNlevels
             THEN [g EXCEPT !.stack = Tail(@)]
             ELSE IF g.pats[f.parent].fChild = <<>>
             THEN [g EXCEPT !.stack[1].pc = "iter",
                            !.stack[1].it = ChildIter_New(g.pats[f.parent].fBits)]
             ELSE [g EXCEPT !.stack[1].pc = "walk", !.stack[1].ln = 1]
  /\ UNCHANGED OtherVars

\* PatternGenerator.cxx:429-449: one turn of the loop over the children
MakeChildNodes_Iter ==
  /\ gen.pc = "run" /\ gen.stack # <<>>
  /\ LET f == Head(gen.stack)
     IN /\ f.pc = "iter"
        /\ gen' =
             IF ChildIter_Valid(f.it)
             THEN [ProcessChild(gen, f.parent, f.depth, f.it.fChild, f.it.fType)
                     EXCEPT !.stack[1].it = ChildIter_Incr(f.it)]
             ELSE [gen EXCEPT !.stack[1].pc = "walk", !.stack[1].ln = 1]
  /\ UNCHANGED OtherVars

\* Mutant of MakeChildNodes_Walk: every child of the list is entered
MakeChildNodes_Walk_Always ==
  /\ gen.pc = "run" /\ gen.stack # <<>>
  /\ LET f == Head(gen.stack)
         list == gen.pats[f.parent].fChild
     IN /\ f.pc = "walk"
        /\ gen' =
             IF f.ln > Len(list)
             THEN [gen EXCEPT !.stack = Tail(@)]
             ELSE LET node == list[f.ln].pat
                      g == [gen EXCEPT !.stack[1].ln = f.ln + 1]
                  IN [g EXCEPT !.stack = <<Frame(node, f.depth + 1)>> \o @]
  /\ UNCHANGED OtherVars

\* PatternGenerator.cxx:453-463: one turn of the loop over the child list
MakeChildNodes_Walk ==
  /\ gen.pc = "run" /\ gen.stack # <<>>
  /\ LET f == Head(gen.stack)
         list == gen.pats[f.parent].fChild
     IN /\ f.pc = "walk"
        /\ gen' =
             IF f.ln > Len(list)
             THEN [gen EXCEPT !.stack = Tail(@)]
             ELSE LET node == list[f.ln].pat
                      g == [gen EXCEPT !.stack[1].ln = f.ln + 1]
                  IN IF gen.pats[node].fChild = <<>>
                        \/ gen.pats[node].fMinDepth > f.depth
                     THEN [g EXCEPT !.stack = <<Frame(node, f.depth + 1)>> \o @]
                     ELSE g
  /\ UNCHANGED OtherVars

\* PatternGenerator.cxx:278-305: the statistics and the returned tree
Generate_Finish ==
  /\ gen.pc = "run" /\ gen.stack = <<>>
  /\ gen' = [gen EXCEPT !.pc = "done", !.fStats = CalcStatistics(gen),
                        !.tree = 1]
  /\ UNCHANGED OtherVars

NextGen ==
  \/ Generate_Reject
  \/ Generate_Start
  \/ MakeChildNodes_Enter
  \/ MakeChildNodes_Iter
  \/ MakeChildNodes_Walk
  \/ Generate_Finish

SpecGen == InitGen /\ [][NextGen]_vars

\* MakeChildNodes is in its loop over the children: the condition under
\* which MakeChildNodes_Iter can take a step
IterTurn ==
  gen.pc = "run" /\ gen.stack # <<>> /\ Head(gen.stack).pc = "iter"
\* Weak fairness of MakeChildNodes_Iter, with IterTurn for its ENABLED
IterFair == []<>(~IterTurn) \/ []<><<MakeChildNodes_Iter>>_vars

\* Generate runs to its return: no step of it waits for anything
SpecGenLive ==
  /\ InitGen /\ [][NextGen]_vars
  /\ WF_vars(Generate_Reject) /\ WF_vars(Generate_Start)
  /\ WF_vars(MakeChildNodes_Enter) /\ WF_vars(MakeChildNodes_Walk)
  /\ WF_vars(Generate_Finish) /\ IterFair

\* The parameters of a second call of Generate on the same generator: at
\* most one level, two planes or three with a repeated position, maxslope at
\* most 0
RegenInputs ==
  {par \in ParamInputs :
     /\ par.maxdepth <= 1 /\ par.maxslope <= 0
     /\ (Len(par.zpos) <= 2 \/ (Len(par.zpos) = 3 /\ par.zpos[2] = 0))}

\* PatternGenerator.cxx:253: Generate is called again after it has returned
Generate_Again ==
  /\ gen.pc \in {"done", "rejected"}
  /\ gen.calls = 1
  /\ \E par \in RegenInputs :
       gen' = [gen EXCEPT !.pc = "idle", !.params = par, !.calls = 2]
  /\ UNCHANGED OtherVars

NextRegen == NextGen \/ Generate_Again

SpecRegen == InitGen /\ [][NextRegen]_vars

(***************************************************************************)
(* Claims about HitPairIter                                                *)
(***************************************************************************)
HitsA == 1..Len(collA)
HitsB == 1..Len(collB)
Emissions == {emitted[k] : k \in 1..Len(emitted)}
Match(a, b) == Compare(PosA(a), PosB(b), iter.fMaxDist) = 0
\* A scan happened in this run: some hit of A was emitted with two hits of B
Scanned == \E k \in 1..Len(emitted), l \in 1..Len(emitted) :
             /\ emitted[k][1] # 0 /\ emitted[k][1] = emitted[l][1]
             /\ emitted[k][2] # 0 /\ emitted[l][2] # 0
             /\ emitted[k][2] # emitted[l][2]

\* C1: completeness.  When the run has reached the terminal pair, every hit
\* of A has been emitted at least once as the first component and every hit
\* of B at least once as the second component.
C1_Completeness ==
  Terminal(iter) =>
    /\ \A a \in HitsA : \E e \in Emissions : e[1] = a
    /\ \A b \in HitsB : \E e \in Emissions : e[2] = b

C1_Witness ==
  /\ Terminal(iter) /\ Len(collA) >= 2 /\ Len(collB) >= 2 /\ Scanned
  /\ \E e \in Emissions : e[2] = 0
  /\ \E e \in Emissions : e[1] = 0

\* C2: soundness.  After every Next(), the constructor's included, a current
\* pair with both components present is within maxdist.
C2_Soundness ==
  (iter.fCurrent[1] # 0 /\ iter.fCurrent[2] # 0)
     => Match(iter.fCurrent[1], iter.fCurrent[2])

C2_Witness ==
  /\ iter.fCurrent[1] # 0 /\ iter.fCurrent[2] # 0
  /\ Len(emitted) >= 3
  /\ PosA(iter.fCurrent[1]) # PosB(iter.fCurrent[2])

\* C3: singleton exactness.  A singleton (a, absent) is emitted only if no
\* hit of B is within maxdist of a, and a singleton (absent, b) only if no
\* hit of A is within maxdist of b.
C3_SingletonExact ==
  \A e \in Emissions :
    /\ (e[1] # 0 /\ e[2] = 0) => \A b \in HitsB : ~Match(e[1], b)
    /\ (e[1] = 0 /\ e[2] # 0) => \A a \in HitsA : ~Match(a, e[2])

\* C4: all pairs.  When the run has reached the terminal pair, every pair
\* (a, b) within maxdist has been emitted.
C4_AllPairs ==
  Terminal(iter) =>
    \A a \in HitsA, b \in HitsB : Match(a, b) => <<a, b>> \in Emissions

\* C5: no duplicates.  No emission is repeated in one run, and a hit that was
\* emitted in a pair is not emitted as a singleton later.
C5_NoDuplicates ==
  /\ \A k \in 1..Len(emitted), l \in 1..Len(emitted) :
       k < l => emitted[k] # emitted[l]
  /\ \A k \in 1..Len(emitted), l \in 1..Len(emitted) :
       (k < l /\ emitted[k][1] # 0 /\ emitted[k][2] # 0) =>
          /\ emitted[l] # <<emitted[k][1], 0>>
          /\ emitted[l] # <<0, emitted[k][2]>>

\* C6: termination.  Repeated Next() reaches the terminal pair and the
\* iterator then stays there: eventually current = (absent, absent) forever.
\* There is no error state: Next() never faults.
C6_Termination == <>[](Terminal(iter) /\ ~iter.fault)

C6_Witness == Terminal(iter) /\ Len(emitted) >= 5 /\ Scanned

\* C7: copy construction.  A copy made at any point of a run emits, under
\* repeated Next(), exactly what the original emits from that point on:
\* after the same number of Next() calls on both, their current pairs agree.
C7_CopySameEmissions ==
  copy # NoIter => copy.fCurrent = iter.fCurrent

(***************************************************************************)
(* Claims about HitSet::IsSimilarTo                                        *)
(***************************************************************************)
ThisHits == {sim.hits[k] : k \in 1..Len(sim.hits)}
TryHits == {sim.tryset.hits[k] : k \in 1..Len(sim.tryset.hits)}

\* C8: IsSimilarTo(tryset) is true exactly when every plane in which tryset
\* has a hit has a hit that is common to both sets.
C8_SimilarIffPlanesCovered ==
  sim.pc = "done" =>
    (sim.result <=>
       \A t \in TryHits : \E h \in ThisHits \cap TryHits : h.plane = t.plane)

\* The call returned true although this has a hit tryset lacks and tryset
\* has an unmatched hit in a plane with a common hit
C8_Witness ==
  /\ sim.pc = "done" /\ sim.result
  /\ ThisHits \ TryHits # {}
  /\ \E t \in TryHits \ ThisHits : \E h \in ThisHits \cap TryHits : h.plane = t.plane
  /\ \E t \in TryHits, u \in TryHits : t.plane # u.plane

(***************************************************************************)
(* Claims about PatternGenerator                                           *)
(***************************************************************************)
StoredSeq == TablePatterns(gen.fHashTable)
StoredIds == {StoredSeq[k] : k \in 1..Len(StoredSeq)}
AllIds == 1..Len(gen.pats)
\* The child Links of the build: <<parent, child, type>>
LinksOf(q) ==
  {<<q, gen.pats[q].fChild[k].pat, gen.pats[q].fChild[k].type>> :
     k \in 1..Len(gen.pats[q].fChild)}
AllLinks == UNION {LinksOf(q) : q \in AllIds}

\* C9: canonical form.  Every Pattern of the hash table, and so every target
\* of a child Link, has bins[0] = 0 and smallest bin 0.
C9_Canonical ==
  LET stored == StoredIds
  IN /\ \A q \in stored :
          /\ gen.pats[q].fBits[1] = 0
          /\ SetMin(BitsOf(gen.pats[q].fBits)) = 0
     /\ \A q \in AllIds : \A k \in 1..Len(gen.pats[q].fChild) :
          gen.pats[q].fChild[k].pat \in stored

\* A finished build that holds a shifted child of a pattern other than the
\* root and a mirrored child
C9_Witness ==
  /\ gen.pc = "done"
  /\ Len(gen.pats) >= 6
  /\ LET links == AllLinks
     IN /\ \E l \in links : /\ l[3] = 1
                            /\ GetWidth(gen.pats[l[1]].fBits) > 0
                            /\ GetWidth(gen.pats[l[2]].fBits) > 1
        /\ \E l \in links : l[3] = 2

\* C10: uniqueness.  At every point of a Generate call on a fresh generator
\* and after it, no two Patterns of the hash table have equal bins, no
\* Pattern is in the table twice, and every child Link points to a Pattern
\* of the table.
C10_Unique ==
  LET seq == StoredSeq
      stored == {seq[k] : k \in 1..Len(seq)}
  IN /\ \A q \in stored, r \in stored :
          q # r => gen.pats[q].fBits # gen.pats[r].fBits
     /\ Len(seq) = Cardinality(stored)
     /\ stored = AllIds
     /\ \A q \in AllIds : \A k \in 1..Len(gen.pats[q].fChild) :
          gen.pats[q].fChild[k].pat \in stored

\* A finished build in which two patterns share a bucket and a pattern is
\* the child of two parents
C10_Witness ==
  /\ gen.pc = "done"
  /\ \E k \in 1..Len(gen.fHashTable) : Len(gen.fHashTable[k]) >= 2
  /\ LET links == AllLinks
     IN \E l \in links, m \in links :
          l[2] = m[2] /\ l[1] # m[1] /\ l[1] # l[2] /\ m[1] # m[2]

\* C11: slope cut.  After Generate with valid parameters every Pattern of the
\* hash table has been used at some depth and passes TestSlope at its
\* recorded fMinDepth.
C11_SlopeCut ==
  gen.pc = "done" =>
    \A q \in StoredIds :
      /\ gen.pats[q].fMinDepth # kNotUsed
      /\ TestSlope(gen.pats[q].fBits, gen.pats[q].fMinDepth, gen.fMaxSlope)

\* The candidates <<bits, type>> that the ChildIter of a parent yields
RECURSIVE ChildIter_All(_)
ChildIter_All(it) ==
  IF ChildIter_Valid(it)
  THEN {<<it.fChild, it.fType>>} \cup ChildIter_All(ChildIter_Incr(it))
  ELSE {}
Children(parent) == ChildIter_All(ChildIter_New(parent))
StoredBits == {gen.pats[q].fBits : q \in StoredIds}

\* C12: line cut.  During and after Generate every Pattern of the hash table
\* other than the root passes LineCheck for the generator's plane positions;
\* with z = [0, 0.5, 1] the pattern [0,2,0] is not in the table.
C12_LineCut ==
  gen.pc \in {"run", "done"} =>
    LET stored == StoredIds
    IN /\ \A q \in stored :
            gen.pats[q].fBits # [i \in 1..gen.fNplanes |-> 0]
               => LineCheck(gen.pats[q].fBits, gen.fZ)
       /\ gen.fZ = <<0, ZUnits \div 2, ZUnits>>
            => \A q \in stored : gen.pats[q].fBits # <<0, 2, 0>>

\* A finished build with three planes in which a candidate of a stored parent
\* passes the slope test at the parent's depth plus one, fails the line check
\* and is not in the table
C12_Witness ==
  /\ gen.pc = "done" /\ gen.fNplanes = 3
  /\ LET bits == StoredBits
     IN \E q \in StoredIds : \E c \in Children(gen.pats[q].fBits) :
          /\ gen.pats[q].fMinDepth + 1 < gen.fNlevels
          /\ TestSlope(c[1], gen.pats[q].fMinDepth + 1, gen.fMaxSlope)
          /\ ~LineCheck(c[1], gen.fZ)
          /\ c[1] \notin bits

\* The bins that the selector sel gives for a parent under the tag t: doubled
\* bins plus selector, lowered by one if t has bit 0, mirrored if t has bit 1
Reapply(parent, sel, t) ==
  LET n == Len(parent)
      c == [i \in 1..n |-> 2 * parent[i] + sel[i]]
      c1 == [i \in 1..n |-> IF t % 2 = 1 THEN c[i] - 1 ELSE c[i]]
      w == Abs(c1[n] - c1[1])
  IN [i \in 1..n |-> IF (t \div 2) % 2 = 1 THEN w - c1[i] ELSE c1[i]]

\* The only selector that can give the bins child from parent under the tag
\* t: the mirroring and the lowering undone, minus the doubled parent
SelectorOf(parent, child, t) ==
  LET n == Len(parent)
      w == Abs(child[n] - child[1])
  IN [i \in 1..n |->
        (IF (t \div 2) % 2 = 1 THEN w - child[i] ELSE child[i])
          + (t % 2) - 2 * parent[i]]

\* C13: child admissibility.  For every child Link (parent, child, t) some
\* selector s in {0,1}^N gives the child's bins from 2*parent + s under t.
C13_ChildAdmissible ==
  gen.pc \in {"run", "done"} =>
    \A l \in AllLinks :
      LET sel == SelectorOf(gen.pats[l[1]].fBits, gen.pats[l[2]].fBits, l[3])
      IN /\ sel \in [1..gen.fNplanes -> {0, 1}]
         /\ Reapply(gen.pats[l[1]].fBits, sel, l[3]) = gen.pats[l[2]].fBits

\* A finished build with three planes that holds a shifted Link and a
\* mirrored Link, each to a pattern other than its parent
C13_Witness ==
  /\ gen.pc = "done" /\ gen.fNplanes = 3
  /\ LET links == AllLinks
     IN /\ \E l \in links : l[3] = 1 /\ l[1] # l[2] /\ l[1] # 1
        /\ \E l \in links : l[3] = 2 /\ l[1] # l[2]

\* C14: mirror rarity.  Every child Link whose type has bit 1 set has the
\* all-zero root pattern as its parent.
C14_MirrorOnlyAtRoot ==
  gen.pc \in {"run", "done"} =>
    \A l \in AllLinks :
      (l[3] \div 2) % 2 = 1 => BitsOf(gen.pats[l[1]].fBits) = {0}

\* A finished build of three planes and three levels or more in which the
\* root owns a mirrored Link and a pattern other than the root owns Links
C14_Witness ==
  /\ gen.pc = "done" /\ gen.fNplanes = 3 /\ gen.fNlevels >= 3
  /\ LET links == AllLinks
     IN /\ \E l \in links : l[3] = 2 /\ BitsOf(gen.pats[l[1]].fBits) = {0}
        /\ \E l \in links : BitsOf(gen.pats[l[1]].fBits) # {0} /\ l[1] # l[2]

\* The ChildIter objects of the MakeChildNodes calls in progress that
\* point to a candidate
LiveIters ==
  {gen.stack[k].it : k \in {j \in 1..Len(gen.stack) :
                              /\ gen.stack[j].pc = "iter"
                              /\ ChildIter_Valid(gen.stack[j].it)}}

\* C15: link type range.  Every type that a ChildIter yields during the
\* build, every type it would yield for a Pattern of the finished table, and
\* every child Link type is 0, 1 or 2.
C15_TypeRange ==
  /\ gen.pc = "run" => \A it \in LiveIters : it.fType \in {0, 1, 2}
  /\ gen.pc \in {"run", "done"} => \A l \in AllLinks : l[3] \in {0, 1, 2}
  /\ gen.pc = "done" =>
       \A q \in StoredIds :
         \A c \in Children(gen.pats[q].fBits) : c[2] \in {0, 1, 2}

\* A ChildIter of a build with three planes points to a mirrored candidate
\* while its parent already owns a shifted Link
C15_Witness ==
  /\ gen.pc = "run" /\ gen.fNplanes = 3
  /\ \E k \in 1..Len(gen.stack) :
       /\ gen.stack[k].pc = "iter"
       /\ ChildIter_Valid(gen.stack[k].it)
       /\ gen.stack[k].it.fType = 2
       /\ \E l \in LinksOf(gen.stack[k].parent) : l[3] = 1

\* The parameters of the trivial tree: two planes at z = 0 and 1, one level
\* below the root, maxslope 1.0
TrivialParams ==
  [maxdepth |-> 1, zpos |-> <<0, ZUnits>>, maxslope |-> SlopeUnits]
\* The child Links of the pattern with bins b, as <<child bins, type>>
LinksFrom(b) ==
  {<<gen.pats[l[2]].fBits, l[3]>> :
     l \in UNION {LinksOf(q) : q \in {r \in AllIds : gen.pats[r].fBits = b}}}
LinkCount(b) ==
  LET ids == {r \in AllIds : gen.pats[r].fBits = b}
  IN IF ids = {} THEN 0 ELSE Len(gen.pats[CHOOSE r \in ids : TRUE].fChild)

\* C16 as stated: the trivial tree has exactly the patterns [0,0] and [0,1]
\* and the root owns exactly one child Link, to [0,1] with type 0.
C16_OneRootLink ==
  (gen.pc = "done" /\ gen.params = TrivialParams) =>
    /\ StoredBits = {<<0, 0>>, <<0, 1>>}
    /\ Len(StoredSeq) = 2
    /\ LinksFrom(<<0, 0>>) = {<<<<0, 1>>, 0>>}
    /\ LinkCount(<<0, 0>>) = 1

\* C16 as amended: the trivial tree has exactly the patterns [0,0] and [0,1];
\* the root owns exactly four child Links, to [0,1] with types 0 and 2 and to
\* itself with types 0 and 1, and [0,1] owns none.
C16_TrivialTree ==
  (gen.pc = "done" /\ gen.params = TrivialParams) =>
    /\ StoredBits = {<<0, 0>>, <<0, 1>>}
    /\ Len(StoredSeq) = 2
    /\ LinksFrom(<<0, 0>>) =
         {<<<<0, 1>>, 0>>, <<<<0, 1>>, 2>>, <<<<0, 0>>, 0>>, <<<<0, 0>>, 1>>}
    /\ LinkCount(<<0, 0>>) = 4
    /\ LinkCount(<<0, 1>>) = 0

\* The build of the trivial tree has finished
C16_Witness ==
  /\ gen.pc = "done" /\ gen.params = TrivialParams
  /\ gen.fStats.nPatterns = 2 /\ gen.fStats.nLinks = 4

\* The patterns that q has a child Link to
Succ(q) == {gen.pats[q].fChild[k].pat : k \in 1..Len(gen.pats[q].fChild)}
\* The patterns reachable from those of S by child Links; self is TRUE if
\* the Links of a pattern to itself count
RECURSIVE ReachSet(_, _)
ReachSet(S, self) ==
  LET T == S \cup UNION {IF self THEN Succ(x) ELSE Succ(x) \ {x} : x \in S}
  IN IF T = S THEN S ELSE ReachSet(T, self)
OnCycle(q, self) ==
  q \in ReachSet(IF self THEN Succ(q) ELSE Succ(q) \ {q}, self)

\* C17 as stated: after Generate the graph of the child Links has no cycle;
\* no Pattern has a child Link to itself.
C17_Acyclic ==
  gen.pc = "done" => \A q \in AllIds : ~OnCycle(q, TRUE)

\* C17 as amended: after Generate the child Links between distinct Patterns
\* form no cycle; the only cycles are child Links of a Pattern to itself, and
\* the root has one.
C17_AcyclicButSelfLinks ==
  gen.pc = "done" =>
    /\ \A q \in AllIds : ~OnCycle(q, FALSE)
    /\ \E q \in AllIds : BitsOf(gen.pats[q].fBits) = {0} /\ q \in Succ(q)

\* A finished build of three planes in which a pattern other than the root
\* has a Link to itself and a pattern has two parents other than itself
C17_Witness ==
  /\ gen.pc = "done" /\ gen.fNplanes = 3 /\ gen.fNlevels >= 4
  /\ \E q \in AllIds : BitsOf(gen.pats[q].fBits) # {0} /\ q \in Succ(q)
  /\ \E q \in AllIds, r \in AllIds, t \in AllIds :
       q # r /\ q # t /\ r # t /\ t \in Succ(q) /\ t \in Succ(r)

\* The candidates of a parent that pass the slope test at depth k and the
\* line check
AdmChildren(parent, k) ==
  {c \in Children(parent) :
     TestSlope(c[1], k, gen.fMaxSlope) /\ LineCheck(c[1], gen.fZ)}
\* The bins of the patterns that end a chain of k admissible steps from the
\* root
RECURSIVE Admissible(_)
Admissible(k) ==
  IF k = 0 THEN {[i \in 1..gen.fNplanes |-> 0]}
  ELSE {c[1] : c \in UNION {AdmChildren(p, k) : p \in Admissible(k - 1)}}

\* C18: enumeration completeness.  After Generate with L levels, every
\* pattern at the end of a chain of k < L admissible steps from the root is
\* in the table, and each step of the chain is a child Link with the tag of
\* the ChildIter.
C18_Complete ==
  gen.pc = "done" =>
    \A k \in 1..(gen.fNlevels - 1) :
      \A p \in Admissible(k - 1) :
        AdmChildren(p, k) \subseteq LinksFrom(p)

\* C19: invalid parameters.  A Generate call whose parameters normalization
\* rejects returns no tree and leaves fNlevels, fNplanes, fMaxSlope, fZ, the
\* hash table and the set of Patterns as they were.
C19_RejectLeavesState ==
  [][(gen.pc = "idle" /\ Normalize(gen.params) # 0) =>
       /\ gen'.pc = "rejected" /\ gen'.tree = 0
       /\ gen'.fNlevels = gen.fNlevels /\ gen'.fNplanes = gen.fNplanes
       /\ gen'.fMaxSlope = gen.fMaxSlope /\ gen'.fZ = gen.fZ
       /\ gen'.fHashTable = gen.fHashTable /\ gen'.pats = gen.pats]_vars

\* A second call was rejected on a generator that holds a finished build
C19_Witness ==
  /\ gen.pc = "rejected" /\ gen.calls = 2 /\ gen.tree = 0
  /\ Len(gen.pats) >= 4 /\ gen.fNlevels >= 3
  /\ Len(gen.params.zpos) >= 2 /\ gen.params.maxdepth >= 1

\* C20: pattern-count bound.  After Generate with L levels and N planes the
\* hash table holds at most 2^(L-1) * 2^(N-2) Patterns.
C20_CountBound ==
  gen.pc = "done" =>
    /\ Len(StoredSeq) <= (2 ^ (gen.fNlevels - 1)) * (2 ^ (gen.fNplanes - 2))
    /\ gen.fStats.nPatterns = Len(StoredSeq)

\* A finished build of three planes and four levels or more that holds
\* three quarters of the Patterns the bound allows, or more
C20_Witness ==
  /\ gen.pc = "done" /\ gen.fNplanes = 3 /\ gen.fNlevels >= 4
  /\ 4 * Len(StoredSeq) >=
       3 * (2 ^ (gen.fNlevels - 1)) * (2 ^ (gen.fNplanes - 2))

(***************************************************************************)
(* Further claims about HitPairIter                                        *)
(***************************************************************************)
\* Emission k belongs to a scan: its hit of A is also emitted with another
\* hit of B
InScan(k) ==
  /\ emitted[k][1] # 0 /\ emitted[k][2] # 0
  /\ \E j \in 1..Len(emitted) :
       /\ emitted[j][1] = emitted[k][1]
       /\ emitted[j][2] # 0 /\ emitted[j][2] # emitted[k][2]

\* C21: replay after a scan.  When the run has reached the terminal pair,
\* every hit of B that was paired with a in a scan and is within maxdist of
\* the next hit a' of A was emitted paired with a' after that.
C21_Replay ==
  Terminal(iter) =>
    \A k \in 1..Len(emitted) :
      (/\ InScan(k)
       /\ emitted[k][1] < Len(collA)
       /\ Match(emitted[k][1] + 1, emitted[k][2]))
        => \E l \in (k + 1)..Len(emitted) :
             emitted[l] = <<emitted[k][1] + 1, emitted[k][2]>>

\* C22: assignment.  After it2 = it1 at any point of the run of it1, the
\* same number of Next() calls on both leaves them with the same current
\* pair, and neither call faults.
C22_AssignSameEmissions ==
  copy # NoIter => (copy.fCurrent = iter.fCurrent /\ ~copy.fault)

\* C23: Reset.  After Reset() at any point of a run the current pair is the
\* first emission of a freshly constructed iterator over the same A, B and
\* maxdist, and after the same number of Next() calls on both their current
\* pairs and pre-computed next pairs agree; no call faults.
C23_ResetLikeFresh ==
  copy # NoIter =>
    /\ iter.fCurrent = copy.fCurrent /\ iter.fNext = copy.fNext
    /\ iter.fScanning = copy.fScanning
    /\ ~iter.fault /\ ~copy.fault

\* Next() was called after a Reset() and the iterator still holds the saved
\* hit and the saved cursor of a scan from before the Reset()
C23_Witness ==
  /\ copy # NoIter /\ Len(emitted) >= 2
  /\ iter.fSaveHit # 0 /\ copy.fSaveHit = 0
  /\ iter.fSaveIter # copy.fSaveIter

\* C24: cursor and lookahead.  After every Next() the cursor of A stands
\* right after next.first and the cursor of B right after next.second; a
\* cursor whose component of next is absent is exhausted.
C24_CursorConsistent ==
  /\ iter.fIterA = IF iter.fNext[1] # 0 THEN iter.fNext[1] ELSE Len(collA)
  /\ iter.fIterB = IF iter.fNext[2] # 0 THEN iter.fNext[2] ELSE Len(collB)

\* C25: scanning invariant.  Whenever the scanning flag is set on return
\* from Next(), both components of the next pair are present, next.first is
\* the hit of A of the current pair, the next pair is within maxdist and the
\* saved hit is present; no Next() calls Compare on an absent hit.
C25_ScanningInvariant ==
  /\ ~iter.fault
  /\ iter.fScanning =>
       /\ iter.fNext[1] # 0 /\ iter.fNext[2] # 0
       /\ iter.fNext[1] = iter.fCurrent[1]
       /\ Match(iter.fNext[1], iter.fNext[2])
       /\ iter.fSaveHit # 0

\* A scan with a hit of A other than the first is in its second step
C25_Witness ==
  /\ iter.fScanning /\ Len(emitted) >= 3
  /\ iter.fCurrent[1] >= 2 /\ iter.fNext[2] >= iter.fSaveHit + 2

(***************************************************************************)
(* Further claims about PatternGenerator                                   *)
(***************************************************************************)
\* The length of the shortest chain of child Links from the patterns of
\* frontier to q, plus k; -1 if there is none
RECURSIVE ChainLength(_, _, _, _)
ChainLength(frontier, seen, k, q) ==
  IF q \in frontier THEN k
  ELSE IF frontier = {} THEN -1
  ELSE LET all == seen \cup frontier
       IN ChainLength(UNION {Succ(x) : x \in frontier} \ all, all, k + 1, q)
RootIds == {q \in AllIds : BitsOf(gen.pats[q].fBits) = {0}}

\* C26: min_depth.  After Generate the root has min_depth 0, every stored
\* Pattern has min_depth equal to the length of the shortest chain of child
\* Links from the root to it, and for every child Link the child's min_depth
\* is at most the parent's plus one.
C26_MinDepth ==
  gen.pc = "done" =>
    LET roots == RootIds
    IN /\ \A r \in roots : gen.pats[r].fMinDepth = 0
       /\ \A q \in StoredIds :
            gen.pats[q].fMinDepth = ChainLength(roots, {}, 0, q)
       /\ \A l \in AllLinks :
            gen.pats[l[2]].fMinDepth <= gen.pats[l[1]].fMinDepth + 1

\* The call chain of MakeChildNodes, innermost call first: the depths go up
\* by one from 1 at the call of Generate, none exceeds fNlevels, and no
\* pattern is on the chain twice
CallChainOrdered ==
  LET s == gen.stack
      n == Len(s)
  IN /\ n > 0 => s[n].depth = 1
     /\ \A i \in 1..n : s[i].depth <= gen.fNlevels
     /\ \A i \in 1..(n - 1) : s[i].depth = s[i + 1].depth + 1
     /\ \A i, j \in 1..n : s[i].parent = s[j].parent => i = j
\* A call MakeChildNodes( node, depth+1 ) made by the walk over a child
\* list: a node that has children is entered only above every depth it was
\* entered at before, which are all greater than its fMinDepth
NoReentry ==
  (gen.stack # <<>> /\ Len(gen'.stack) > Len(gen.stack)) =>
    LET call == Head(gen'.stack)
        node == gen.pats[call.parent]
    IN /\ call.depth = Head(gen.stack).depth + 1
       /\ node.fChild # <<>> => call.depth <= node.fMinDepth

C28_RepeatLikeFresh ==
  (gen.pc = "done" /\ gen.calls = 2) =>
    /\ Cardinality(RootIds \cap StoredIds) = 1
    /\ \A q \in StoredIds : Len(gen.pats[q].fBits) = gen.fNplanes
    /\ Len(gen.fHashTable) = 2 ^ (gen.fNlevels - 1)

=============================================================================
